---- MODULE Spec2Model ----
(***************************************************************************)
(* Model of the digit_group crate (src/src/lib.rs): custom_group and the   *)
(* private groupify_integer it calls for the integer and fractional parts. *)
(* A string is a sequence of one-character strings.                        *)
(***************************************************************************)
EXTENDS Integers, Sequences, FiniteSets, TLC

VARIABLES num, decimal_mark, grouping_delimiter, first_group_size, group_size,
          group_fractional_part, pc, parts, integer_part, fractional_grouped,
          grouped_string, outcome

vars == <<num, decimal_mark, grouping_delimiter, first_group_size, group_size,
          group_fractional_part, pc, parts, integer_part, fractional_grouped,
          grouped_string, outcome>>

(* ------------------------------ bounds -------------------------------- *)
\* longest input string
MaxLen == 5
\* largest first_group_size tried (0 included: usize admits it)
MaxFirstGroupSize == 2
\* largest group_size tried (0 included: usize admits it)
MaxGroupSize == 2

(* ----------------------------- alphabet ------------------------------- *)
\* two distinct digits are enough to tell any reordering of digits
Digits == {"1", "2"}
Minus == "-"
Point == "."
InputChars == Digits \cup {Minus, Point}
\* characters the caller may choose as delimiter / decimal mark; the two
\* sets overlap, so both distinguishable and clashing choices occur
Delimiters == {",", "."}
DecimalMarks == {".", ","}

SeqsUpTo(S, n) == UNION {[1..k -> S] : k \in 0..n}

(* ------------------------ iterator adaptors --------------------------- *)
Min(a, b) == IF a <= b THEN a ELSE b

\* Iterator::skip(n)
Skip(s, n) == IF n >= Len(s) THEN <<>> ELSE SubSeq(s, n + 1, Len(s))

\* Iterator::take(n)
Take(s, n) == SubSeq(s, 1, Min(n, Len(s)))

\* Iterator::rev / Vec::reverse
Rev(s) == [i \in 1..Len(s) |-> s[Len(s) + 1 - i]]

\* index of the first '.' in s, 0 when there is none
RECURSIVE FirstPoint(_, _)
FirstPoint(s, i) ==
    IF i > Len(s) THEN 0
    ELSE IF s[i] = Point THEN i
    ELSE FirstPoint(s, i + 1)

\* num.split('.').collect::<Vec<_>>(): always at least one (maybe empty) piece
RECURSIVE Split(_)
Split(s) ==
    LET p == FirstPoint(s, 1) IN
    IF p = 0 THEN <<s>>
    ELSE <<SubSeq(s, 1, p - 1)>> \o Split(Skip(s, p))

(* -------------------------- groupify_integer -------------------------- *)
RightToLeft == "RightToLeft"
LeftToRight == "LeftToRight"

is_negative(integral_digits) ==
    IF Len(integral_digits) > 0 THEN integral_digits[1] = Minus ELSE FALSE

skip_negative(integral_digits) ==
    IF is_negative(integral_digits) THEN 1 ELSE 0

\* bug variant: the direction is ignored and the digits are always reversed
VisitedAlwaysReversed(integral_digits, direction) ==
    Rev(Skip(integral_digits, skip_negative(integral_digits)))

\* the digits in the order the two loops visit them
Visited(integral_digits, direction) ==
    IF direction = RightToLeft
    THEN Rev(Skip(integral_digits, skip_negative(integral_digits)))
    ELSE Skip(integral_digits, skip_negative(integral_digits))

\* "Handle the first group."
FirstGroup(integral_digits, first_group_size_, direction) ==
    Take(Visited(integral_digits, direction), first_group_size_)

\* bug variant: the delimiter test is off by one, `(i + 1) % group_size == 0`
RECURSIVE PushSubsequentOffByOne(_, _, _, _)
PushSubsequentOffByOne(rest, i, delimiter, group_size_) ==
    IF i >= Len(rest) THEN <<>>
    ELSE (IF (i + 1) % group_size_ = 0 THEN <<delimiter>> ELSE <<>>)
         \o <<rest[i + 1]>>
         \o PushSubsequentOffByOne(rest, i + 1, delimiter, group_size_)

\* bug variant: the delimiter is pushed after the digit instead of before it
RECURSIVE PushSubsequentDelimiterAfter(_, _, _, _)
PushSubsequentDelimiterAfter(rest, i, delimiter, group_size_) ==
    IF i >= Len(rest) THEN <<>>
    ELSE <<rest[i + 1]>>
         \o (IF i % group_size_ = 0 THEN <<delimiter>> ELSE <<>>)
         \o PushSubsequentDelimiterAfter(rest, i + 1, delimiter, group_size_)

\* the enumerate() loop body, from index i (0-based) on
RECURSIVE PushSubsequent(_, _, _, _)
PushSubsequent(rest, i, delimiter, group_size_) ==
    IF i >= Len(rest) THEN <<>>
    ELSE (IF i % group_size_ = 0 THEN <<delimiter>> ELSE <<>>)
         \o <<rest[i + 1]>>
         \o PushSubsequent(rest, i + 1, delimiter, group_size_)

\* bug variant: subsequent groups are one digit too long
SubsequentGroupsTooLong(integral_digits, delimiter, first_group_size_, group_size_, direction) ==
    PushSubsequent(Skip(Visited(integral_digits, direction), first_group_size_),
                   0, delimiter, group_size_ + 1)

\* "Handle subsequent groups."
SubsequentGroups(integral_digits, delimiter, first_group_size_, group_size_, direction) ==
    PushSubsequent(Skip(Visited(integral_digits, direction), first_group_size_),
                   0, delimiter, group_size_)

\* bug variant: the sign is inserted at the front of the working vector
AddSignFront(integral_digits, delimited_integer) ==
    IF is_negative(integral_digits)
    THEN <<Minus>> \o delimited_integer
    ELSE delimited_integer

\* "Add negative sign if needed."
AddSign(integral_digits, delimited_integer) ==
    IF is_negative(integral_digits)
    THEN Append(delimited_integer, Minus)
    ELSE delimited_integer

\* bug variant: the final reverse is forgotten
FinishNoReverse(delimited_integer, direction) == delimited_integer

\* "We reversed above, so need to change it back for the final value."
Finish(delimited_integer, direction) ==
    IF direction = RightToLeft THEN Rev(delimited_integer) ELSE delimited_integer

\* `i % group_size` with group_size = 0 panics; it is evaluated as soon as the
\* second loop has one digit to visit
RemainderByZero(integral_digits, first_group_size_, group_size_, direction) ==
    /\ group_size_ = 0
    /\ Len(Skip(Visited(integral_digits, direction), first_group_size_)) > 0

groupify_integer(integral_digits, delimiter, first_group_size_, group_size_, direction) ==
    Finish(AddSign(integral_digits,
                   FirstGroup(integral_digits, first_group_size_, direction)
                   \o SubsequentGroups(integral_digits, delimiter,
                                       first_group_size_, group_size_, direction)),
           direction)

(* ---------------------------- custom_group ---------------------------- *)
Init ==
    /\ num \in SeqsUpTo(InputChars, MaxLen)
    /\ decimal_mark \in DecimalMarks
    /\ grouping_delimiter \in Delimiters
    /\ first_group_size \in 0..MaxFirstGroupSize
    /\ group_size \in 0..MaxGroupSize
    /\ group_fractional_part \in BOOLEAN
    /\ pc = "split"
    /\ parts = <<>>
    /\ integer_part = <<>>
    /\ fractional_grouped = <<>>
    /\ grouped_string = <<>>
    /\ outcome = "running"

\* let parts = num.split('.').collect::<Vec<_>>();
SplitNum ==
    /\ pc = "split"
    /\ parts' = Split(num)
    /\ pc' = "integer_part"
    /\ UNCHANGED <<num, decimal_mark, grouping_delimiter, first_group_size,
                   group_size, group_fractional_part, integer_part,
                   fractional_grouped, grouped_string, outcome>>

\* let integer_part = match parts.get(0) {...}; let mut grouped_string = integer_part;
GroupIntegerPart ==
    /\ pc = "integer_part"
    /\ IF Len(parts) >= 1
          /\ RemainderByZero(parts[1], first_group_size, group_size, RightToLeft)
       THEN /\ outcome' = "panicked"
            /\ pc' = "done"
            /\ UNCHANGED <<integer_part, grouped_string>>
       ELSE /\ integer_part' =
                  IF Len(parts) >= 1
                  THEN groupify_integer(parts[1], grouping_delimiter,
                                        first_group_size, group_size, RightToLeft)
                  ELSE <<>>
            /\ grouped_string' = integer_part'
            /\ pc' = "fractional_part"
            /\ UNCHANGED outcome
    /\ UNCHANGED <<num, decimal_mark, grouping_delimiter, first_group_size,
                   group_size, group_fractional_part, parts, fractional_grouped>>

\* if let Some(fractional_part) = parts.get(1) { push(decimal_mark);
\*     if group_fractional_part { groupify_integer(.., LeftToRight); push_str } }
GroupFractionalPart ==
    /\ pc = "fractional_part"
    /\ Len(parts) >= 2
    /\ group_fractional_part
    /\ IF RemainderByZero(parts[2], first_group_size, group_size, LeftToRight)
       THEN /\ outcome' = "panicked"
            /\ UNCHANGED <<fractional_grouped, grouped_string>>
       ELSE /\ fractional_grouped' =
                  groupify_integer(parts[2], grouping_delimiter,
                                   first_group_size, group_size, LeftToRight)
            /\ grouped_string' =
                  Append(grouped_string, decimal_mark) \o fractional_grouped'
            /\ outcome' = "returned"
    /\ pc' = "done"
    /\ UNCHANGED <<num, decimal_mark, grouping_delimiter, first_group_size,
                   group_size, group_fractional_part, parts, integer_part>>

\* bug variant: group_fractional_part is ignored and the fraction is grouped
CopyFractionalPartGrouped ==
    /\ pc = "fractional_part"
    /\ Len(parts) >= 2
    /\ ~group_fractional_part
    /\ grouped_string' =
          Append(grouped_string, decimal_mark)
          \o (IF group_size = 0 THEN parts[2]
              ELSE groupify_integer(parts[2], grouping_delimiter,
                                    first_group_size, group_size, LeftToRight))
    /\ outcome' = "returned"
    /\ pc' = "done"
    /\ UNCHANGED <<num, decimal_mark, grouping_delimiter, first_group_size,
                   group_size, group_fractional_part, parts, integer_part,
                   fractional_grouped>>

\* if let Some(fractional_part) = parts.get(1) { push(decimal_mark);
\*     if group_fractional_part {..} else { push_str(fractional_part) } }
CopyFractionalPart ==
    /\ pc = "fractional_part"
    /\ Len(parts) >= 2
    /\ ~group_fractional_part
    /\ grouped_string' = Append(grouped_string, decimal_mark) \o parts[2]
    /\ outcome' = "returned"
    /\ pc' = "done"
    /\ UNCHANGED <<num, decimal_mark, grouping_delimiter, first_group_size,
                   group_size, group_fractional_part, parts, integer_part,
                   fractional_grouped>>

\* parts.get(1) is None: grouped_string is returned as it is
ReturnIntegerPart ==
    /\ pc = "fractional_part"
    /\ Len(parts) < 2
    /\ outcome' = "returned"
    /\ pc' = "done"
    /\ UNCHANGED <<num, decimal_mark, grouping_delimiter, first_group_size,
                   group_size, group_fractional_part, parts, integer_part,
                   fractional_grouped, grouped_string>>

Next ==
    \/ SplitNum
    \/ GroupIntegerPart
    \/ GroupFractionalPart
    \/ CopyFractionalPart
    \/ ReturnIntegerPart

Spec == Init /\ [][Next]_vars

TypeOK ==
    /\ pc \in {"split", "integer_part", "fractional_part", "done"}
    /\ outcome \in {"running", "returned", "panicked"}
    /\ (pc = "done") = (outcome # "running")

(* ------------------- vocabulary of the properties --------------------- *)
\* optional leading '-', digits, at most one '.'
ValidNumberString(s) ==
    /\ \A i \in 1..Len(s) : s[i] \in InputChars
    /\ \A i \in 1..Len(s) : s[i] = Minus => i = 1
    /\ Cardinality({i \in 1..Len(s) : s[i] = Point}) <= 1

HasPoint(s) == \E i \in 1..Len(s) : s[i] = Point

\* what stands before the '.' of a valid string (all of it when there is none)
IntegerSubstring(s) ==
    IF HasPoint(s)
    THEN SubSeq(s, 1, (CHOOSE i \in 1..Len(s) : s[i] = Point) - 1)
    ELSE s

\* what stands after the '.' of a valid string
FractionalSubstring(s) ==
    LET p == CHOOSE i \in 1..Len(s) : s[i] = Point IN
    [i \in 1..(Len(s) - p) |-> s[p + i]]

DigitCount(s) == Cardinality({i \in 1..Len(s) : s[i] \in Digits})

Occurrences(s, c) == Cardinality({i \in 1..Len(s) : s[i] = c})

RECURSIVE Remove(_, _)
Remove(s, c) ==
    IF s = <<>> THEN <<>>
    ELSE (IF Head(s) = c THEN <<>> ELSE <<Head(s)>>) \o Remove(Tail(s), c)

Replace(s, a, b) == [i \in 1..Len(s) |-> IF s[i] = a THEN b ELSE s[i]]

\* lengths of the runs of s between occurrences of d, left to right
RECURSIVE RunLengths(_, _, _, _)
RunLengths(s, d, i, cur) ==
    IF i > Len(s) THEN <<cur>>
    ELSE IF s[i] = d THEN <<cur>> \o RunLengths(s, d, i + 1, 0)
    ELSE RunLengths(s, d, i + 1, cur + 1)

Unsigned(s) == IF Len(s) > 0 /\ s[1] = Minus THEN Tail(s) ELSE s

PositiveSizes == first_group_size >= 1 /\ group_size >= 1

Returned == pc = "done" /\ outcome = "returned"

\* the output is the integer side, then (if anything follows) the decimal
\* mark and the fractional side
IntegerSide == integer_part
FractionalSide == Skip(grouped_string, Len(integer_part) + 1)
Composed ==
    /\ Len(grouped_string) >= Len(integer_part)
    /\ Take(grouped_string, Len(integer_part)) = integer_part
    /\ Len(grouped_string) > Len(integer_part)
          => grouped_string[Len(integer_part) + 1] = decimal_mark
    /\ HasPoint(num) = (Len(grouped_string) > Len(integer_part))

\* every delimiter of s stands between two digits
DelimitersBetweenDigits(s) ==
    \A i \in 1..Len(s) :
        s[i] = grouping_delimiter =>
            /\ 1 < i /\ i < Len(s)
            /\ s[i - 1] \in Digits
            /\ s[i + 1] \in Digits

FirstGroupSizing ==
    (/\ Returned
     /\ ValidNumberString(num)
     /\ PositiveSizes
     /\ DigitCount(IntegerSubstring(num)) >= 1)
    => LET n == DigitCount(IntegerSubstring(num))
           runs == RunLengths(Unsigned(IntegerSide), grouping_delimiter, 1, 0)
           nearest == runs[Len(runs)]
       IN /\ Composed
          /\ nearest >= 1 /\ nearest <= first_group_size
          /\ n > first_group_size => nearest = first_group_size
          /\ n <= first_group_size => (Len(runs) = 1 /\ nearest = n)

FirstGroupSizingWitness ==
    /\ Returned
    /\ ValidNumberString(num)
    /\ HasPoint(num)
    /\ first_group_size = 2
    /\ group_size = 1
    /\ DigitCount(IntegerSubstring(num)) = 4
    /\ Len(RunLengths(Unsigned(IntegerSide), grouping_delimiter, 1, 0)) = 3

(* ------------------------------- C4 ----------------------------------- *)
\* C4 as stated: every digit group other than the one next to the decimal
\* point has exactly group_size digits, the only exemption being the
\* leading remainder group of the integer side.
SubsequentGroupSizingAsStated ==
    (/\ Returned
     /\ ValidNumberString(num)
     /\ PositiveSizes)
    => LET g == RunLengths(Unsigned(IntegerSide), grouping_delimiter, 1, 0)
           h == RunLengths(FractionalSide, grouping_delimiter, 1, 0)
       IN /\ \A j \in 1..(Len(g) - 1) :
                 IF j = 1 THEN g[j] >= 1 /\ g[j] <= group_size
                          ELSE g[j] = group_size
          /\ \A j \in 2..Len(h) : h[j] = group_size

\* C4 amended: every digit group other than the one next to the decimal
\* point has exactly group_size digits, except the outermost group of each
\* side: the leading remainder of the integer side and, when the fractional
\* part is grouped, the trailing remainder of the fractional side, each of
\* which has 1..group_size digits.
SubsequentGroupSizing ==
    (/\ Returned
     /\ ValidNumberString(num)
     /\ PositiveSizes)
    => LET g == RunLengths(Unsigned(IntegerSide), grouping_delimiter, 1, 0)
           h == RunLengths(FractionalSide, grouping_delimiter, 1, 0)
       IN /\ Composed
          /\ \A j \in 1..(Len(g) - 1) :
                 IF j = 1 THEN g[j] >= 1 /\ g[j] <= group_size
                          ELSE g[j] = group_size
          /\ \A j \in 2..Len(h) :
                 IF j = Len(h) THEN h[j] >= 1 /\ h[j] <= group_size
                               ELSE h[j] = group_size

SubsequentGroupSizingWitness ==
    /\ Returned
    /\ ValidNumberString(num)
    /\ first_group_size = 1
    /\ group_size = 2
    /\ group_fractional_part
    /\ LET h == RunLengths(FractionalSide, grouping_delimiter, 1, 0)
       IN Len(h) = 3 /\ h[2] = 2 /\ h[3] = 1

(* ------------------------------- C5 ----------------------------------- *)
\* the fractional digits d with a delimiter after the k-th of them wherever
\* k = first + j * size for some j >= 0 and a further digit follows
RECURSIVE DelimitedRightward(_, _, _, _, _)
DelimitedRightward(d, k, delimiter, first, size) ==
    IF k > Len(d) THEN <<>>
    ELSE (IF k >= 1 THEN <<d[k]>> ELSE <<>>)
         \o (IF /\ k < Len(d)
                /\ k >= first
                /\ (IF size = 0 THEN k = first ELSE (k - first) % size = 0)
             THEN <<delimiter>> ELSE <<>>)
         \o DelimitedRightward(d, k + 1, delimiter, first, size)

\* C5: when the number string has a fractional substring and
\* group_fractional_part is true, what follows the decimal mark in the
\* output is the fractional digits in their order, with a delimiter after
\* the first first_group_size of them and after every further group_size,
\* only where another digit follows.
FractionalGrouping ==
    (/\ Returned
     /\ ValidNumberString(num)
     /\ HasPoint(num)
     /\ group_fractional_part)
    => /\ Composed
       /\ FractionalSide =
            DelimitedRightward(FractionalSubstring(num), 0, grouping_delimiter,
                               first_group_size, group_size)

FractionalGroupingWitness ==
    /\ Returned
    /\ ValidNumberString(num)
    /\ HasPoint(num)
    /\ group_fractional_part
    /\ first_group_size = 2
    /\ group_size = 1
    /\ Len(FractionalSubstring(num)) = 4
    /\ FractionalSubstring(num)[1] # FractionalSubstring(num)[2]
    /\ Occurrences(FractionalSide, grouping_delimiter) = 2

(* ------------------------------- C6 ----------------------------------- *)
\* C6: when group_fractional_part is false and the number string has a '.',
\* the output is the grouped integer part, the decimal mark and the
\* fractional substring unchanged, whatever the two sizes are; without a
\* '.', the output is the grouped integer part alone, with no decimal mark.
FractionUntouched ==
    (/\ Returned
     /\ ValidNumberString(num)
     /\ ~group_fractional_part)
    => /\ Remove(IntegerSide, grouping_delimiter) = IntegerSubstring(num)
       /\ IF HasPoint(num)
          THEN grouped_string =
                  IntegerSide \o <<decimal_mark>> \o FractionalSubstring(num)
          ELSE /\ grouped_string = IntegerSide
               /\ grouping_delimiter # decimal_mark
                     => Occurrences(grouped_string, decimal_mark) = 0

FractionUntouchedWitness ==
    /\ Returned
    /\ ValidNumberString(num)
    /\ ~group_fractional_part
    /\ HasPoint(num)
    /\ first_group_size = 1
    /\ group_size = 1
    /\ Len(FractionalSubstring(num)) = 2
    /\ FractionalSubstring(num)[1] # FractionalSubstring(num)[2]
    /\ Occurrences(IntegerSide, grouping_delimiter) = 1

(* ------------------------------- C7 ----------------------------------- *)
\* C7: a call with group_size = 0 ends in an explicit error: it neither
\* panics on the remainder by zero nor returns an output string.
ZeroGroupSizeRejected ==
    (pc = "done" /\ group_size = 0)
    => (outcome # "panicked" /\ outcome # "returned")

(* ------------------------------- C8 ----------------------------------- *)
\* C8: a number string that is not valid (a second '.', a '-' that is not
\* leading) is answered with an explicit failure, never with an output
\* string.
MalformedInputReported ==
    (pc = "done" /\ ~ValidNumberString(num)) => outcome # "returned"

(* ------------------------------- C9 ----------------------------------- *)
\* C9: for a valid number string (empty integer part, empty fractional part
\* and lone sign included) and positive group sizes, every delimiter of the
\* output stands between two digits, so none is first, last, next to the
\* sign or next to the decimal mark; and a part with at most
\* first_group_size digits holds no delimiter.
NoDelimiterArtifacts ==
    (/\ Returned
     /\ ValidNumberString(num)
     /\ PositiveSizes)
    => /\ Composed
       /\ DelimitersBetweenDigits(IntegerSide)
       /\ DelimitersBetweenDigits(FractionalSide)
       /\ grouping_delimiter # decimal_mark
             => DelimitersBetweenDigits(grouped_string)
       /\ DigitCount(IntegerSubstring(num)) <= first_group_size
             => Occurrences(IntegerSide, grouping_delimiter) = 0
       /\ (HasPoint(num) /\ Len(FractionalSubstring(num)) <= first_group_size)
             => Occurrences(FractionalSide, grouping_delimiter) = 0

NoDelimiterArtifactsWitness ==
    /\ Returned
    /\ ValidNumberString(num)
    /\ PositiveSizes
    /\ grouping_delimiter # decimal_mark
    /\ group_fractional_part
    /\ Len(num) >= 1 /\ num[1] = Minus
    /\ Occurrences(IntegerSide, grouping_delimiter) = 1
    /\ Occurrences(FractionalSide, grouping_delimiter) = 0
    /\ Len(FractionalSide) = 1

(* ------------------------------- C10 ---------------------------------- *)
\* a '-' followed by digits only
SignedDigits(s) ==
    /\ Len(s) >= 1
    /\ s[1] = Minus
    /\ \A i \in 2..Len(s) : s[i] \in Digits

\* C10: in both directions, groupify_integer answers a digit sequence that
\* starts with '-' with a string whose first character is the only '-', the
\* digits following in their original order.
GrouperSignFirst ==
    /\ (/\ pc \in {"fractional_part", "done"}
        /\ outcome # "panicked"
        /\ PositiveSizes
        /\ SignedDigits(parts[1]))
       => /\ integer_part[1] = Minus
          /\ Occurrences(integer_part, Minus) = 1
          /\ Remove(integer_part, grouping_delimiter) = parts[1]
    /\ (/\ Returned
        /\ group_fractional_part
        /\ PositiveSizes
        /\ Len(parts) >= 2
        /\ SignedDigits(parts[2]))
       => /\ fractional_grouped[1] = Minus
          /\ Occurrences(fractional_grouped, Minus) = 1
          /\ Remove(fractional_grouped, grouping_delimiter) = parts[2]
====
